---- MODULE Spec2Model ----
(***************************************************************************)
(* PyGW2/calendar.py: the Mauvelian calendar date (a signed day offset),   *)
(* its arithmetic, and the reference-point converter between Mauvelian and *)
(* real (Gregorian) dates.                                                 *)
(*                                                                         *)
(* A real date is modelled by its proleptic Gregorian ordinal (the value   *)
(* of datetime.date.toordinal()), so date - date is integer subtraction    *)
(* and date + timedelta is integer addition with datetime's range check.   *)
(* MauvelianDate objects live in a heap (object id = index), because       *)
(* addDays mutates its receiver and the converter stores a reference to    *)
(* the caller's object.                                                    *)
(***************************************************************************)
EXTENDS Integers, Sequences, FiniteSets, TLC

VARIABLES heap, reference, last

vars == <<heap, reference, last>>

(***************************************************************************)
(* Bounds of the model.                                                    *)
(***************************************************************************)
\* number of MauvelianDate objects the caller keeps alive at once
MaxObjects == 2
\* how far in-place mutation may move a kept date from a constructible one
MaxDrift == 0
\* depth at which the interpreter gives up on a runaway recursion
MaxRecursion == 6

(***************************************************************************)
(* Python values.                                                          *)
(***************************************************************************)
\* None, for a real date or a MauvelianDate object reference (ordinals and
\* object ids both start at 1)
None == 0

NoSeason == "None"

Seasons == {"ZEPHYR", "PHOENIX", "SCION", "COLOSSUS"}

\* datetime.date.max.toordinal(): date + timedelta raises OverflowError
\* outside [date.min, date.max]
DateMaxOrdinal == 3652059

DateMinOrdinal == 1

\* datetime.date(2016, 11, 5).toordinal()
RefOrdinal == 736273

YearLength == 365

Abs(x) == IF x < 0 THEN -x ELSE x

\* math.ceil(a / b) and math.floor(a / b) for b > 0
Ceil(a, b) == -((-a) \div b)

Floor(a, b) == a \div b

Raise(exc) == [kind |-> exc, value |-> None]

Return(k, v) == [kind |-> k, value |-> v]

(***************************************************************************)
(* MauvelianSeason                                                         *)
(***************************************************************************)
daysRangeStart(season) ==
    CASE season = "ZEPHYR" -> 1
      [] season = "PHOENIX" -> 91
      [] season = "SCION" -> 181
      [] season = "COLOSSUS" -> 271

daysRangeLen(season) ==
    CASE season = "ZEPHYR" -> 91 - 1
      [] season = "PHOENIX" -> 181 - 91
      [] season = "SCION" -> 271 - 181
      [] season = "COLOSSUS" -> 366 - 271

seasonOf(day_of_year) ==
    IF ~(1 <= day_of_year /\ day_of_year <= 365) THEN Raise("ValueError")
    ELSE IF day_of_year <= 180
         THEN (IF day_of_year <= 90 THEN Return("season", "ZEPHYR")
                                    ELSE Return("season", "PHOENIX"))
         ELSE (IF day_of_year <= 270 THEN Return("season", "SCION")
                                     ELSE Return("season", "COLOSSUS"))

(***************************************************************************)
(* MauvelianDate: the value of _day, and the accessors on it               *)
(***************************************************************************)
\* __init__: the _day of the new object, or the exception raised
MauvelianDate(year_, day, season) ==
    IF year_ = 0 THEN Raise("ValueError")
    ELSE IF season # NoSeason /\ ~(1 <= day /\ day <= daysRangeLen(season))
    THEN Raise("ValueError")
    ELSE LET d == IF season # NoSeason
                  THEN day + (daysRangeStart(season) - 1)
                  ELSE day
         IN  IF ~(1 <= d /\ d <= 365) THEN Raise("ValueError")
             ELSE IF year_ > 0
                  THEN Return("date", d + (YearLength * (year_ - 1)))
                  ELSE Return("date", (-d) - (YearLength * (year_ + 1)))

year(_day) ==
    IF _day > 0 THEN Ceil(_day, YearLength) ELSE Floor(_day, YearLength)

dayOfYear(_day) ==
    LET d == Abs(_day % YearLength) IN IF d = 0 THEN 365 ELSE d

dayOfSeason(_day) ==
    (dayOfYear(_day) - daysRangeStart(seasonOf(dayOfYear(_day)).value)) + 1

\* addDays: the _day of self after the call
addDays(_day, days) ==
    LET s == _day + days
    IN  IF s = 0 THEN (IF days > 0 THEN 1 ELSE 1) ELSE s

daysBetween(_day, other) == Abs(_day - other)

\* __add__ written as `return self.addDays(days)`: the receiver is changed
addInPlace(h, self, days) ==
    [kind |-> "date", value |-> addDays(h[self], days),
     heap |-> [h EXCEPT ![self] = addDays(h[self], days)]]

\* __add__: MauvelianDate(self.year, self.dayOfYear).addDays(days) on heap h;
\* value is the _day of the returned new object, heap the heap after the call
add(h, self, days) ==
    LET copy == MauvelianDate(year(h[self]), dayOfYear(h[self]), NoSeason)
    IN  IF copy.kind # "date"
        THEN [kind |-> copy.kind, value |-> None, heap |-> h]
        ELSE [kind |-> "date", value |-> addDays(copy.value, days), heap |-> h]

\* __sub__ with a MauvelianDate on the right
subDate(_day, other) == Return("int", daysBetween(_day, other))

\* __sub__ with a number of days on the right: `return self - other` calls
\* __sub__ again with the same operands
RECURSIVE subDays(_, _, _)
subDays(_day, days, depth) ==
    IF depth >= MaxRecursion THEN Raise("RecursionError")
    ELSE subDays(_day, days, depth + 1)

(***************************************************************************)
(* DateConverter                                                           *)
(***************************************************************************)
\* the names bound in the module's namespace (imports and classes)
ModuleNames == {"datetime", "enum", "math",
                "MauvelianSeason", "MauvelianDate", "DateConverter"}

\* isinstance(x, datetime.date) / isinstance(x, MauvelianDate), for x a
\* value of that type or None
isinstance(x) == x # None

\* setReferencePoint: the outcome and the _reference after the call
setReferencePoint(ref, real_date, mauvelian_date) ==
    IF ~isinstance(real_date) \/ ~isinstance(mauvelian_date)
    THEN \* the right operand of `and` is evaluated: it looks NoneType up
         IF "NoneType" \notin ModuleNames
         THEN [kind |-> "NameError", value |-> None, reference |-> ref]
         ELSE IF ~(real_date = None /\ mauvelian_date = None)
              THEN [kind |-> "TypeError", value |-> None, reference |-> ref]
              ELSE [kind |-> "none", value |-> None,
                    reference |-> <<real_date, mauvelian_date>>]
    ELSE [kind |-> "none", value |-> None,
          reference |-> <<real_date, mauvelian_date>>]

\* the guard written as `[0] is None and [1] is not None`
referenceNotSetTypo(ref) == ref[1] = None /\ ref[2] # None

\* self._reference[0] is None or self._reference[1] is None
referenceNotSet(ref) == ref[1] = None \/ ref[2] = None

\* date + timedelta(days)
datePlus(ordinal, days) ==
    IF ordinal + days < DateMinOrdinal \/ ordinal + days > DateMaxOrdinal
    THEN Raise("OverflowError")
    ELSE Return("real", ordinal + days)

realToMauvelian(h, ref, real_date) ==
    IF referenceNotSet(ref)
    THEN [kind |-> "RuntimeError", value |-> None, heap |-> h]
    ELSE IF ref[1] = None \/ ref[2] = None
         THEN \* date - None, None + int
              [kind |-> "TypeError", value |-> None, heap |-> h]
         ELSE add(h, ref[2], real_date - ref[1])

\* mauvelian_date is the _day of the argument
mauvelianToReal(h, ref, mauvelian_date) ==
    IF referenceNotSet(ref)
    THEN Raise("RuntimeError")
    ELSE IF ref[2] = None
         THEN \* MauvelianDate - None takes the days branch of __sub__
              subDays(mauvelian_date, None, 0)
         ELSE IF ref[1] = None
              THEN Raise("TypeError")
              ELSE datePlus(ref[1], subDate(mauvelian_date, h[ref[2]]).value)

(***************************************************************************)
(* Inputs of the model.                                                    *)
(***************************************************************************)
\* (year, day, season) given to the constructor
ConstructorArgs ==
    { <<1, 1, NoSeason>>, <<1, 365, NoSeason>>, <<2, 1, NoSeason>>,
      <<-1, 1, NoSeason>>, <<-2, 365, NoSeason>>,
      <<0, 1, NoSeason>>, <<1, 366, NoSeason>>, <<1, 91, "ZEPHYR">>,
      <<1328, 35, "COLOSSUS">> }

\* numbers of days given to addDays, + and -
Deltas == {-1, 1, 2}

\* real dates given to setReferencePoint
ReferenceReals == {RefOrdinal, DateMaxOrdinal}

\* real dates given to realToMauvelian
Reals == {RefOrdinal - 1, RefOrdinal, RefOrdinal + 1}

\* the _day values the constructor inputs produce
Anchors ==
    { MauvelianDate(a[1], a[2], a[3]).value :
        a \in { c \in ConstructorArgs :
                   MauvelianDate(c[1], c[2], c[3]).kind = "date" } }

InWindow(d) == \E a \in Anchors : Abs(d - a) <= MaxDrift

Objects == 1..Len(heap)

\* a new object stays alive (the caller binds it) while there is room
Keep(h, d) == IF Len(h) < MaxObjects /\ InWindow(d) THEN Append(h, d) ELSE h

\* the stored reference and the _day of its MauvelianDate, at call time
Snapshot ==
    <<reference[1], reference[2],
      IF reference[2] # None THEN heap[reference[2]] ELSE None>>

Call(op, self, args, r) ==
    [op |-> op, self |-> self,
     selfDay |-> IF self # None THEN heap[self] ELSE None,
     args |-> args, ref0 |-> Snapshot, kind |-> r.kind, value |-> r.value]

(***************************************************************************)
(* The state machine.                                                      *)
(***************************************************************************)
Init ==
    /\ heap = <<>>
    /\ reference = <<None, None>>
    /\ last = [op |-> "init", self |-> None, selfDay |-> None, args |-> <<>>,
               ref0 |-> <<None, None, None>>, kind |-> "none", value |-> None]

Construct(a) ==
    LET r == MauvelianDate(a[1], a[2], a[3])
    IN  /\ heap' = IF r.kind = "date" THEN Keep(heap, r.value) ELSE heap
        /\ last' = Call("MauvelianDate", None, a, r)
        /\ UNCHANGED reference

AddDays(self, days) ==
    /\ InWindow(addDays(heap[self], days))
    /\ heap' = [heap EXCEPT ![self] = addDays(heap[self], days)]
    /\ last' = Call("addDays", self, <<days>>,
                    Return("date", addDays(heap[self], days)))
    /\ UNCHANGED reference

Add(self, days) ==
    LET r == add(heap, self, days)
    IN  /\ heap' = IF r.kind = "date" THEN Keep(r.heap, r.value) ELSE r.heap
        /\ last' = Call("add", self, <<days>>, r)
        /\ UNCHANGED reference

SubDate(self, other) ==
    /\ last' = Call("sub", self, <<other>>, subDate(heap[self], heap[other]))
    /\ UNCHANGED <<heap, reference>>

SubDays(self, days) ==
    /\ last' = Call("subDays", self, <<days>>, subDays(heap[self], days, 0))
    /\ UNCHANGED <<heap, reference>>

SetReferencePoint(real_date, mauvelian_date) ==
    LET r == setReferencePoint(reference, real_date, mauvelian_date)
    IN  /\ reference' = r.reference
        /\ last' = Call("setReferencePoint", None,
                        <<real_date, mauvelian_date>>, r)
        /\ UNCHANGED heap

RealToMauvelian(real_date) ==
    LET r == realToMauvelian(heap, reference, real_date)
    IN  /\ heap' = IF r.kind = "date" THEN Keep(r.heap, r.value) ELSE r.heap
        /\ last' = Call("realToMauvelian", None, <<real_date>>, r)
        /\ UNCHANGED reference

MauvelianToReal(obj) ==
    /\ last' = Call("mauvelianToReal", obj, <<>>,
                    mauvelianToReal(heap, reference, heap[obj]))
    /\ UNCHANGED <<heap, reference>>

Next ==
    \/ \E a \in ConstructorArgs : Construct(a)
    \/ \E self \in Objects, days \in Deltas : AddDays(self, days)
    \/ \E self \in Objects, days \in Deltas : Add(self, days)
    \/ \E self \in Objects, other \in Objects : SubDate(self, other)
    \/ \E self \in Objects, days \in Deltas : SubDays(self, days)
    \/ \E real_date \in ReferenceReals \cup {None},
          mauvelian_date \in Objects \cup {None} :
            SetReferencePoint(real_date, mauvelian_date)
    \/ \E real_date \in Reals : RealToMauvelian(real_date)
    \/ \E obj \in Objects : MauvelianToReal(obj)

Spec == Init /\ [][Next]_vars

\* the converter with the dates it is given: construction, in-place change
\* of a date (also of the one the converter holds), and the three
\* converter operations
NextConverter ==
    \/ \E a \in ConstructorArgs : Construct(a)
    \/ \E self \in Objects, days \in Deltas : AddDays(self, days)
    \/ \E real_date \in ReferenceReals \cup {None},
          mauvelian_date \in Objects \cup {None} :
            SetReferencePoint(real_date, mauvelian_date)
    \/ \E real_date \in Reals : RealToMauvelian(real_date)
    \/ \E obj \in Objects : MauvelianToReal(obj)

SpecConverter == Init /\ [][NextConverter]_vars

(***************************************************************************)
(* The claims.  `last` is the most recent call: its receiver and arguments,*)
(* the stored reference at call time (ref0), and its outcome.              *)
(***************************************************************************)
Conversions == {"realToMauvelian", "mauvelianToReal"}

\* _day of MauvelianDate(1328, 35, COLOSSUS)
ReferenceDay == MauvelianDate(1328, 35, "COLOSSUS").value

ValidDay(_day) ==
    /\ _day # 0
    /\ year(_day) # 0
    /\ 1 <= dayOfYear(_day) /\ dayOfYear(_day) <= 365

\* C1: with the reference (2016-11-05, MauvelianDate(1328, 35, Colossus)),
\* converting a Mauvelian date to a real date and back gives the date again,
\* and converting a real date to a Mauvelian date and back gives the real
\* date again, before as well as after the reference.
C1_RoundTrip ==
    (last.ref0[1] = RefOrdinal /\ last.ref0[2] # None
        /\ last.ref0[3] = ReferenceDay) =>
      /\ (last.op = "mauvelianToReal" /\ ValidDay(last.selfDay)) =>
           /\ last.kind = "real"
           /\ realToMauvelian(heap, reference, last.value).kind = "date"
           /\ realToMauvelian(heap, reference, last.value).value = last.selfDay
      /\ last.op = "realToMauvelian" =>
           /\ last.kind = "date"
           /\ mauvelianToReal(heap, reference, last.value).kind = "real"
           /\ mauvelianToReal(heap, reference, last.value).value = last.args[1]

\* the signed number of days from the reference date M to the date d
SignedDelta(d, M) ==
    IF d > M THEN daysBetween(d, M)
    ELSE IF d < M THEN -daysBetween(d, M) ELSE 0

\* C2: mauvelianToReal(d) with stored reference (R, M), for dates d and M
\* with nonzero offsets, returns R + k, where k
\* is +daysBetween for d after M, -daysBetween for d before M and 0 for
\* d = M (whenever R + k is a date datetime can hold).
C2_SignedDelta ==
    (/\ last.op = "mauvelianToReal"
     /\ last.ref0[1] # None /\ last.ref0[2] # None
     /\ ValidDay(last.ref0[3]) /\ ValidDay(last.selfDay)
     /\ DateMinOrdinal <= last.ref0[1] + SignedDelta(last.selfDay, last.ref0[3])
     /\ last.ref0[1] + SignedDelta(last.selfDay, last.ref0[3]) <= DateMaxOrdinal)
    => /\ last.kind = "real"
       /\ last.value = last.ref0[1] + SignedDelta(last.selfDay, last.ref0[3])

\* C3: MauvelianDate(year, dayOfYear) with a nonzero year and a day in 1..365
\* reports that year and that day of year.
C3_ConstructorRoundTrip ==
    (/\ last.op = "MauvelianDate"
     /\ last.args[3] = NoSeason
     /\ last.args[1] # 0
     /\ 1 <= last.args[2] /\ last.args[2] <= 365)
    => /\ last.kind = "date"
       /\ year(last.value) = last.args[1]
       /\ dayOfYear(last.value) = last.args[2]

\* C4: for dates a < b, a + b.daysBetween(a) equals b and leaves a unchanged.
C4_AddDistanceReachesLater ==
    last.op = "add" =>
      \A b \in Objects :
        (ValidDay(last.selfDay) /\ ValidDay(heap[b])
            /\ last.selfDay < heap[b]
            /\ last.args[1] = daysBetween(heap[b], last.selfDay))
        => /\ last.kind = "date"
           /\ last.value = heap[b]
           /\ heap[last.self] = last.selfDay

\* C5: d - n returns a new date whose offset is that of addDays(-n) on a copy
\* of d, and leaves d unchanged.
C5_IntegerSubtraction ==
    (last.op = "subDays" /\ ValidDay(last.selfDay)) =>
      /\ last.kind = "date"
      /\ last.value = addDays(last.selfDay, -last.args[1])
      /\ heap[last.self] = last.selfDay

\* C6: setReferencePoint stores a complete pair, clears the reference on
\* (None, None), and on exactly one None fails with TypeError leaving the
\* stored reference as it was.
C6_SetReferencePointPairs ==
    last.op = "setReferencePoint" =>
      /\ (last.args[1] # None /\ last.args[2] # None) =>
           (last.kind = "none" /\ reference = <<last.args[1], last.args[2]>>)
      /\ (last.args[1] = None /\ last.args[2] = None) =>
           (last.kind = "none" /\ reference = <<None, None>>)
      /\ ((last.args[1] = None) # (last.args[2] = None)) =>
           (last.kind = "TypeError"
              /\ reference = <<last.ref0[1], last.ref0[2]>>)

\* C7: a conversion fails with RuntimeError ("Reference point not set")
\* exactly when no complete reference pair is stored, and such a failing call
\* returns nothing and leaves the dates and the stored reference as they were.
C7_PreconditionIffNoReference ==
    [][ last'.op \in Conversions =>
          /\ (last'.kind = "RuntimeError")
               <=> (reference[1] = None \/ reference[2] = None)
          /\ last'.kind = "RuntimeError" =>
               (last'.value = None /\ heap' = heap /\ reference' = reference)
      ]_vars

C7_Witness ==
    /\ last.op \in Conversions
    /\ last.kind = "RuntimeError"
    /\ Len(heap) > 0

\* C8: every date that construction, addDays and + produce has a nonzero
\* offset, a nonzero year and a day of year in 1..365.
C8_ValidDates ==
    /\ \A o \in Objects : ValidDay(heap[o])
    /\ (last.op \in {"MauvelianDate", "addDays", "add"} /\ last.kind = "date")
         => ValidDay(last.value)

\* C9: a conversion leaves the stored reference pair (the real date, the
\* MauvelianDate object and that object's offset) as it was at the call, so
\* after any run of conversions it is the pair setReferencePoint stored.
C9_ConversionsKeepReference ==
    last.op \in Conversions =>
      /\ reference = <<last.ref0[1], last.ref0[2]>>
      /\ last.ref0[2] # None => heap[last.ref0[2]] = last.ref0[3]

C9_Witness ==
    /\ last.op = "realToMauvelian"
    /\ last.kind = "date"
    /\ last.value # last.ref0[3]
    /\ heap[reference[2]] = last.ref0[3]

\* C10: for a stored reference with an AE or BE Mauvelian date and real dates
\* r1 < r2, realToMauvelian(r1) < realToMauvelian(r2).
C10_StrictlyOrderPreserving ==
    (/\ last.op = "realToMauvelian"
     /\ last.ref0[1] # None /\ last.ref0[2] # None
     /\ ValidDay(last.ref0[3]))
    => \A r2 \in Reals :
         last.args[1] < r2 =>
           /\ last.kind = "date"
           /\ realToMauvelian(heap, reference, r2).kind = "date"
           /\ last.value < realToMauvelian(heap, reference, r2).value

====
